---- MODULE Spec2Model ----
(***************************************************************************)
(* Exam session controller of the voice exam agent.                        *)
(*                                                                         *)
(* The repository holds two variants of the controller:                    *)
(*   "agent"    - src/agent.py, the self-contained entrypoint with the     *)
(*                another-chance dialog;                                   *)
(*   "handlers" - src/handlers.py with src/utils.py, src/transcript.py and *)
(*                src/exam_state.py, the modular controller with the       *)
(*                termination phrases and the EXAM_COMPLETED message.      *)
(* A session runs one of them; the variable `variant` says which.          *)
(*                                                                         *)
(* Every event of the transport starts its handler as an asyncio task      *)
(* (asyncio.create_task).  A task runs without interruption from one await *)
(* to the next; at an await (agent.say, asyncio.sleep, send_message) any   *)
(* other task may run.  A step of the model is one such run.               *)
(***************************************************************************)
EXTENDS Integers, Sequences, FiniteSets, Bags, TLC

(***************************************************************************)
(* Bounds of the model.                                                    *)
(***************************************************************************)
MaxEvents == 4      \* events the transport delivers in a session
MaxTasks == 2       \* handler tasks alive at the same time
NumQuestions == 2   \* questions of the exam the repository stores

(***************************************************************************)
(* Python's None and optional values: <<>> is None, <<v>> is the value v.  *)
(***************************************************************************)
None == <<>>
Some(v) == <<v>>
Val(o) == o[1]

(***************************************************************************)
(* Text.  A str is a sequence of one-character strings, so that lower()    *)
(* and the `in` substring test are computed and not assumed.               *)
(***************************************************************************)
UpperCase == <<"A","B","C","D","E","F","G","H","I","J","K","L","M","N","O","P","Q","R","S","T","U","V","W","X","Y","Z">>
LowerCase == <<"a","b","c","d","e","f","g","h","i","j","k","l","m","n","o","p","q","r","s","t","u","v","w","x","y","z">>

LowerChar(c) ==
    IF \E i \in 1..Len(UpperCase) : UpperCase[i] = c
    THEN LowerCase[CHOOSE i \in 1..Len(UpperCase) : UpperCase[i] = c]
    ELSE c

\* str.lower()
Lower(s) == [i \in 1..Len(s) |-> LowerChar(s[i])]

\* phrase in s
Contains(s, phrase) ==
    \E k \in 0..(Len(s) - Len(phrase)) :
        \A j \in 1..Len(phrase) : s[k + j] = phrase[j]

\* any(phrase in message.lower() for phrase in phrases)
AnyPhraseIn(message, phrases) ==
    \E p \in 1..Len(phrases) : Contains(Lower(message), phrases[p])

TERMINATION_PHRASES ==
    << <<"e","n","d"," ","e","x","a","m">>,
       <<"f","i","n","i","s","h"," ","e","x","a","m">>,
       <<"s","t","o","p"," ","e","x","a","m">>,
       <<"e","x","i","t"," ","e","x","a","m">>,
       <<"q","u","i","t"," ","e","x","a","m">>,
       <<"t","e","r","m","i","n","a","t","e"," ","e","x","a","m">> >>

ANOTHER_CHANCE_PHRASES ==
    << <<"y","e","s">>,
       <<"y","e","a","h">>,
       <<"s","u","r","e">>,
       <<"o","k","a","y">>,
       <<"p","l","e","a","s","e">>,
       <<"g","i","v","e"," ","m","e"," ","a","n","o","t","h","e","r"," ","c","h","a","n","c","e">> >>

DONT_KNOW_PHRASES ==
    << <<"i"," ","d","o","n","'","t"," ","k","n","o","w">>,
       <<"d","o","n","'","t"," ","k","n","o","w">>,
       <<"n","o"," ","i","d","e","a">>,
       <<"n","o","t"," ","s","u","r","e">>,
       <<"i","'","m"," ","n","o","t"," ","s","u","r","e">>,
       <<"i"," ","a","m"," ","n","o","t"," ","s","u","r","e">>,
       <<"i"," ","h","a","v","e"," ","n","o"," ","i","d","e","a">> >>

NEXT_QUESTION_PHRASES ==
    << <<"y","e","s">>,
       <<"y","e","a","h">>,
       <<"s","u","r","e">>,
       <<"o","k","a","y">>,
       <<"o","k">>,
       <<"r","e","a","d","y">>,
       <<"n","e","x","t">> >>

\* The utterances a student commits in the model.
UttAnswer == <<"P","a","r","i","s">>
UttDontKnow == <<"I"," ","d","o","n","'","t"," ","k","n","o","w">>
UttYes == <<"Y","e","s">>
UttEndExam == <<"E","n","d"," ","e","x","a","m">>
Utterances == {UttAnswer, UttDontKnow, UttYes, UttEndExam}

\* the phrase tests of the handlers on each utterance, computed once
PhraseTests ==
    [u \in Utterances |->
        [ termination |-> AnyPhraseIn(u, TERMINATION_PHRASES),
          affirmative |-> AnyPhraseIn(u, ANOTHER_CHANCE_PHRASES),
          dont_know |-> AnyPhraseIn(u, DONT_KNOW_PHRASES),
          next_question |-> AnyPhraseIn(u, NEXT_QUESTION_PHRASES) ]]

\* last_user_message and any(phrase in last_user_message.lower() for phrase in [...])
IsTermination(m) == m # None /\ PhraseTests[Val(m)].termination
IsAffirmative(m) == m # None /\ PhraseTests[Val(m)].affirmative
IsDontKnow(m) == m # None /\ PhraseTests[Val(m)].dont_know
IsNextConfirmation(m) == m # None /\ PhraseTests[Val(m)].next_question

\* an utterance with none of the phrases
IsPlain(m) == ~IsTermination(m) /\ ~IsAffirmative(m) /\ ~IsDontKnow(m)

(***************************************************************************)
(* Spoken lines.  Every line is a record of the same shape: its kind and   *)
(* the values formatted into it.                                           *)
(***************************************************************************)
Line(kind, n, text, who) == [kind |-> kind, n |-> n, text |-> text, who |-> who]

\* f"Question {current_question_idx + 1}: {question}"
QuestionPrompt(idx, question) == Line("question", idx + 1, question, "")
\* WELCOME_MESSAGE.format(student_name=..., exam_name=...)
WelcomeMessage(student_name, exam_name) == Line("welcome", 0, exam_name, student_name)
\* f"Thank you for completing the {name} exam. ... all {len(questions)} questions. ..."
ClosingStatement(ex) == Line("closing", Len(ex.questions), ex.name, "")
ChanceOffer == Line("offer", 0, "", "")
InvalidNotice == Line("invalid", 0, "", "")
FailureNotice == Line("failure", 0, "", "")
TerminationAck == Line("ack", 0, "", "")
ReadyPrompt == Line("ready", 0, "", "")
\* agent.say(None): the line spoken when current_question is still None
NoneLine == Line("None", 0, "", "")

(***************************************************************************)
(* Exams.                                                                  *)
(***************************************************************************)
Exam(exam_id, name, questions) == [exam_id |-> exam_id, name |-> name, questions |-> questions]

QuestionTexts == <<"D1", "D2", "D3", "D4">>
\* the exam document of the repository and the personalized list of a submission
StoredExam(exam_id) == Exam(exam_id, "Stored", [i \in 1..NumQuestions |-> QuestionTexts[i]])
PersonalizedQuestions == <<"P1">>

VARIABLES
    variant,            \* "agent" or "handlers"
    exam_state,         \* the ExamState object
    last_user_message,  \* text of the latest user turn of agent.chat_ctx, or None
    tasks,              \* the bag of handler tasks alive
    events,             \* events delivered so far
    spoke,              \* the line the last step passed to agent.say, or None
    prompts,            \* the new-question prompts spoken, in order
    hist,               \* counters of the session's outputs
    store,              \* the ExamDBDriver: its client and the submissions collection
    messages,           \* agent.chat_ctx.messages as given to the transcript extraction
    clock,              \* datetime.datetime.now() at the extraction
    result,             \* the call made last on the driver or the extraction, with its value
    watchdog            \* the periodic data check of the entrypoint: where it is, its checks

\* The session specification draws the answers of the repository from DbAnswers
\* and SaveOutcomes and keeps of the chat context only last_user_message: it
\* holds store, messages, clock, result and watchdog fixed.  They are the state
\* of the specifications of the driver, of the extraction and of the data check
\* further down.
session_vars == <<variant, exam_state, last_user_message, tasks, events, spoke, prompts, hist>>
unit_vars == <<store, messages, clock, result, watchdog>>
vars == <<variant, exam_state, last_user_message, tasks, events, spoke, prompts, hist,
          store, messages, clock, result, watchdog>>

\* ExamState.__init__
InitExamState ==
    [ exam |-> None,
      current_question_idx |-> 0,
      questions_asked |-> 0,
      data_received |-> FALSE,
      exam_completed |-> FALSE,
      needs_another_chance |-> FALSE,
      waiting_for_another_chance_response |-> FALSE,
      waiting_for_next_question_confirmation |-> FALSE,
      current_question |-> None ]

InitHist ==
    [ closing |-> 0,            \* closing statements spoken
      completed_msgs |-> 0,     \* EXAM_COMPLETED messages sent
      saves |-> 0,              \* transcript saves invoked, whatever invoked them
      save_completion |-> 0,    \* transcript saves invoked by the completion procedure
      completion_save_failed |-> FALSE,  \* the save of the completion procedure failed
      reasked |-> FALSE,        \* the question presented last was asked again since
      raised |-> FALSE,         \* a handler ended by an uncaught exception
      terminated |-> FALSE,     \* a termination phrase was handled
      questions_msgs |-> 0,     \* QUESTIONS messages delivered
      plain |-> 0 ]             \* utterances without any phrase, committed with an exam loaded

\* ExamDBDriver.__init__: no client, no collection
InitStore == [client |-> FALSE, submissions |-> <<>>]

\* the data check before its loop: checks = 0, no reminder spoken
InitWatchdog == [pc |-> "start", checks |-> 0, reminders |-> 0]

Init ==
    /\ variant \in {"agent", "handlers"}
    /\ exam_state = InitExamState
    /\ last_user_message = None
    /\ tasks = EmptyBag
    /\ events = 0
    /\ spoke = None
    /\ prompts = <<>>
    /\ hist = InitHist
    /\ store = InitStore
    /\ messages = <<>>
    /\ clock = 0
    /\ result = None
    /\ watchdog = InitWatchdog

(***************************************************************************)
(* Inbound data packets and the answers of the repository.                 *)
(***************************************************************************)
Packet(kind, examId, questions, name, studentName, isImprovized) ==
    [ kind |-> kind, examId |-> examId, questions |-> questions, name |-> name,
      studentName |-> studentName, isImprovized |-> isImprovized ]

NoPacket == Packet("none", None, <<>>, None, None, FALSE)
\* data.data is empty
EmptyPacket == Packet("empty", None, <<>>, None, None, FALSE)
\* json.loads raises JSONDecodeError
MalformedPacket == Packet("malformed", None, <<>>, None, None, FALSE)
\* a JSON message whose type is not QUESTIONS
OtherPacket == Packet("other", None, <<>>, None, None, FALSE)
\* {type: QUESTIONS, data: {examId: "abc123", questions: [{text: "Q1"}], name: "Algebra", studentName: "Sam"}}
ScenarioPacket == Packet("QUESTIONS", Some("abc123"), <<"Q1">>, Some("Algebra"), Some("Sam"), FALSE)
\* {type: QUESTIONS, data: {examId: "abc123", isImprovized: true}}
ImprovizedPacket == Packet("QUESTIONS", Some("abc123"), <<>>, None, None, TRUE)
\* {type: QUESTIONS, data: {questions: [{text: "Q1"}]}}
InlinePacket == Packet("QUESTIONS", None, <<"Q1">>, None, None, FALSE)
\* {type: QUESTIONS, data: {}}
BarePacket == Packet("QUESTIONS", None, <<>>, None, None, FALSE)

\* the packets a session receives in the model
Packets == {OtherPacket, ScenarioPacket, ImprovizedPacket}

\* What the repository answers to one QUESTIONS message: whether the exam
\* document is found, and whether the submission carries personalized questions.
DbAnswers == [found : BOOLEAN, personalized : BOOLEAN]

\* db_driver.get_exam_by_id(exam_id): the Exam, or None
GetExamById(db, exam_id) == IF db.found THEN Some(StoredExam(exam_id)) ELSE None

\* db_driver.get_personalized_questions_from_submission(exam_id): a list, maybe empty
GetPersonalizedQuestions(db, exam_id) ==
    IF db.personalized THEN PersonalizedQuestions ELSE <<>>

\* dict.get(key, default)
GetOr(o, default) == IF o = None THEN default ELSE Val(o)

(***************************************************************************)
(* What one uninterrupted run of a task does: the new ExamState, where the *)
(* task is suspended next ("done": the handler returned), the line it      *)
(* passed to agent.say, the transcript save it invoked, whether it sent    *)
(* EXAM_COMPLETED, whether it raised.                                      *)
(***************************************************************************)
Eff(st, pc, say, save, send) ==
    [st |-> st, pc |-> pc, say |-> say, save |-> save, send |-> send, raise |-> FALSE]

Return(st) == Eff(st, "done", None, "", FALSE)

\* an exception leaves the handler
Raise(st) == [Return(st) EXCEPT !.raise = TRUE]

(***************************************************************************)
(* ask_next_question, from its call to its first await.                    *)
(***************************************************************************)
\* a faulty variant of AskInvalid: nothing is said
AskInvalid_Silent(st) == Return(st)

\* exam is None: say the apology
AskInvalid(st) == Eff(st, "ask_say_invalid", Some(InvalidNotice), "", FALSE)

\* needs_another_chance: say current_question again
AskAnotherChance(st) ==
    Eff(st, "ask_say_again",
        IF st.current_question = None THEN Some(NoneLine) ELSE st.current_question,
        "", FALSE)

\* current_question_idx < len(questions): count, format, remember and say the question
AskQuestion(st) ==
    LET question == Val(st.exam).questions[st.current_question_idx + 1]
        question_prompt == QuestionPrompt(st.current_question_idx, question)
    IN  Eff([st EXCEPT !.questions_asked = @ + 1,
                       !.current_question = Some(question_prompt)],
            "ask_say_question", Some(question_prompt), "", FALSE)

\* all questions asked: the completion procedure.  agent.py saves and says the
\* closing statement; handlers.py saves and sends EXAM_COMPLETED first.
AskComplete(st, v) ==
    LET completed == [st EXCEPT !.exam_completed = TRUE]
    IN  IF v = "agent"
        THEN Eff(completed, "ask_say_closing",
                 Some(ClosingStatement(Val(st.exam))), "completion", FALSE)
        ELSE Eff(completed, "ask_send_message", None, "completion", TRUE)

AskNextQuestion(st, v) ==
    IF ~st.data_received THEN Return(st)
    ELSE IF st.exam = None THEN AskInvalid(st)
    ELSE IF st.exam_completed THEN Return(st)
    ELSE IF st.waiting_for_another_chance_response THEN Return(st)
    ELSE IF st.needs_another_chance THEN AskAnotherChance(st)
    ELSE IF st.current_question_idx < Len(Val(st.exam).questions) THEN AskQuestion(st)
    ELSE AskComplete(st, v)

\* after the await of agent.say(current_question)
AfterAnotherChance(st) == Return([st EXCEPT !.needs_another_chance = FALSE])

\* a faulty variant of AfterQuestion: the index stays where it is
AfterQuestion_NoAdvance(st) == Return(st)

\* a faulty variant of AfterQuestion: the index goes back by one
AfterQuestion_StepsBack(st) == Return([st EXCEPT !.current_question_idx = @ - 1])

\* after the await of agent.say(question_prompt)
AfterQuestion(st) == Return([st EXCEPT !.current_question_idx = @ + 1])

\* handlers.py, after the await of send_message: say the closing statement
AfterSendMessage(st) ==
    IF st.exam = None THEN Raise(st)
    ELSE Eff(st, "ask_say_closing", Some(ClosingStatement(Val(st.exam))), "", FALSE)

(***************************************************************************)
(* handle_data_received, from the packet to its first await.               *)
(***************************************************************************)
\* a faulty variant of LookupExam: the personalized questions are not used
LookupExam_MetadataOnly(st, packet, db) ==
    IF packet.examId = None THEN st.exam ELSE GetExamById(db, Val(packet.examId))

\* the repository lookup; without an examId exam_state.exam is left as it is
LookupExam(st, packet, db) ==
    IF packet.examId = None THEN st.exam
    ELSE IF packet.isImprovized
    THEN LET exam_metadata == GetExamById(db, Val(packet.examId))
             personalized_questions == GetPersonalizedQuestions(db, Val(packet.examId))
         IN  IF exam_metadata # None
             THEN IF personalized_questions # <<>>
                  THEN Some(Exam(Val(packet.examId), Val(exam_metadata).name,
                                 personalized_questions))
                  ELSE exam_metadata
             ELSE None
    ELSE GetExamById(db, Val(packet.examId))

\* the fallback to the questions of the frontend when the lookup left None
EstablishExam(st, packet, db) ==
    LET looked == LookupExam(st, packet, db)
    IN  IF looked # None THEN looked
        ELSE IF packet.questions # <<>>
        THEN Some(Exam(GetOr(packet.examId, "frontend-exam"),
                       GetOr(packet.name, "Unnamed Exam"),
                       packet.questions))
        ELSE None

HandleDataReceived(st, packet, db) ==
    IF packet.kind \in {"empty", "malformed"} THEN Return(st)
    ELSE LET received == [st EXCEPT !.data_received = TRUE]
         IN  IF packet.kind # "QUESTIONS" THEN Return(received)
             ELSE LET established == EstablishExam(st, packet, db)
                      loaded == [received EXCEPT !.exam = established]
                  IN  IF established = None
                      THEN Eff(loaded, "say_failure", Some(FailureNotice), "", FALSE)
                      ELSE Eff(loaded, "say_welcome",
                               Some(WelcomeMessage(GetOr(packet.studentName, "Student"),
                                                   Val(established).name)),
                               "", FALSE)

(***************************************************************************)
(* on_user_speech_committed, from its start to its first await.            *)
(***************************************************************************)
\* agent.py: the reply to the chance offer
ChanceReply(st, m) ==
    LET answered == [st EXCEPT !.waiting_for_another_chance_response = FALSE]
    IN  IF IsAffirmative(m)
        THEN Eff([answered EXCEPT !.needs_another_chance = TRUE], "sleep_chance", None, "", FALSE)
        ELSE Eff([answered EXCEPT !.needs_another_chance = FALSE], "sleep_pacing", None, "", FALSE)

\* a faulty variant of OfferAnotherChance: the offer is spoken, the flag is not set
OfferAnotherChance_NoFlag(st) == Eff(st, "say_offer", Some(ChanceOffer), "", FALSE)

\* agent.py: a don't-know answer: offer another chance
OfferAnotherChance(st) ==
    Eff([st EXCEPT !.waiting_for_another_chance_response = TRUE],
        "say_offer", Some(ChanceOffer), "", FALSE)

AgentSpeechCommitted(st, m) ==
    IF st.waiting_for_another_chance_response /\ m # None /\ Val(m) # <<>>
    THEN ChanceReply(st, m)
    ELSE IF IsDontKnow(m) THEN OfferAnotherChance(st)
    ELSE Eff(st, "sleep_pacing", None, "", FALSE)

\* agent.py, after asyncio.sleep(1.5)
AfterPacing(st, v) ==
    IF ~st.exam_completed THEN AskNextQuestion(st, v) ELSE Return(st)

HandlersSpeechCommitted(st, m, v) ==
    IF IsTermination(m)
    THEN Eff(st, "say_ack", Some(TerminationAck), "", FALSE)
    ELSE IF st.waiting_for_next_question_confirmation
    THEN IF IsNextConfirmation(m)
         THEN AskNextQuestion([st EXCEPT !.waiting_for_next_question_confirmation = FALSE], v)
         ELSE Eff(st, "say_ready", Some(ReadyPrompt), "", FALSE)
    ELSE Return(st)

\* handlers.py, after the await of the acknowledgment: complete and save
AfterTerminationAck(st) ==
    LET completed == [st EXCEPT !.exam_completed = TRUE]
    IN  IF st.exam = None THEN Raise(completed)
        ELSE Eff(completed, "done", None, "termination", FALSE)

\* utils.py: the task the disconnect callback created
SaveOnDisconnect(st) == Eff(st, "done", None, "disconnect", FALSE)

(***************************************************************************)
(* A task resumed after an await.                                          *)
(***************************************************************************)
Resume(pc, st, v) ==
    CASE pc = "ask_say_invalid" -> Return(st)
      [] pc = "ask_say_again" -> AfterAnotherChance(st)
      [] pc = "ask_say_question" -> AfterQuestion(st)
      [] pc = "ask_send_message" -> AfterSendMessage(st)
      [] pc = "ask_say_closing" -> Return(st)
      [] pc = "say_failure" -> Return(st)
      [] pc = "say_welcome" -> AskNextQuestion(st, v)
      [] pc = "sleep_chance" -> AskNextQuestion(st, v)
      [] pc = "sleep_pacing" -> AfterPacing(st, v)
      [] pc = "say_offer" -> Return(st)
      [] pc = "say_ack" -> AfterTerminationAck(st)
      [] pc = "say_ready" -> Return(st)
      [] pc = "save" -> SaveOnDisconnect(st)

(***************************************************************************)
(* The tasks.                                                              *)
(***************************************************************************)
\* kind: the handler; pc: the await it is suspended at ("start": not yet run);
\* packet: the argument of a data handler that has not started; late: the handler
\* is a data handler that found an exam already established when it started
Task(kind, pc, packet, late) == [kind |-> kind, pc |-> pc, packet |-> packet, late |-> late]

\* the tasks alive, and those among them that have started
Alive == BagCardinality(tasks)
Started == {t \in BagToSet(tasks) : t.pc # "start"}
Running == BagCardinality([t \in Started |-> CopiesIn(t, tasks)])

\* asyncio.create_task
CreateTask(t) == tasks (+) SetToBag({t})

Bump(h, field, by) == [h EXCEPT ![field] = @ + by]

\* what a transcript save comes to: the repository returns True, returns False,
\* or the extraction or the repository raises (caught and logged by the caller)
SaveOutcomes == {"saved", "false", "raised"}
SaveOutcomesOf(e) == IF e.save = "" THEN {"none"} ELSE SaveOutcomes

\* the outputs of one run, counted
Count(h, e, t, outcome) ==
    [h EXCEPT !.terminated = @ \/ t.pc = "say_ack",
              !.closing = @ + (IF e.say # None /\ Val(e.say).kind = "closing" THEN 1 ELSE 0),
              !.completed_msgs = @ + (IF e.send THEN 1 ELSE 0),
              !.saves = @ + (IF e.save # "" THEN 1 ELSE 0),
              !.save_completion = @ + (IF e.save = "completion" THEN 1 ELSE 0),
              !.reasked = IF e.pc = "ask_say_question" THEN FALSE
                          ELSE @ \/ (e.pc = "ask_say_again" /\ Val(e.say).kind = "question"),
              !.completion_save_failed =
                  @ \/ (e.save = "completion" /\ outcome \in {"false", "raised"}),
              \* handle_data_received catches every exception of its body
              !.raised = @ \/ (e.raise /\ t.kind # "data")]

\* task t has run from its await to the next one with the effect e
Apply(t, e) ==
    /\ exam_state' = e.st
    /\ tasks' = IF e.pc = "done" THEN tasks (-) SetToBag({t})
                ELSE (tasks (-) SetToBag({t}))
                     (+) SetToBag({Task(t.kind, e.pc, NoPacket,
                                        t.late \/ (t.pc = "start" /\ t.kind = "data"
                                                   /\ exam_state.exam # None))})
    /\ spoke' = e.say
    /\ prompts' = IF e.pc = "ask_say_question" THEN Append(prompts, Val(e.say)) ELSE prompts
    /\ \E outcome \in SaveOutcomesOf(e) : hist' = Count(hist, e, t, outcome)
    /\ UNCHANGED <<variant, last_user_message, events>>
    /\ UNCHANGED unit_vars

CanDeliver == events < MaxEvents /\ Alive < MaxTasks

\* ctx.room.on("data_received", lambda data: asyncio.create_task(handle_data_received(data)))
DataReceived(packet) ==
    /\ CanDeliver
    /\ tasks' = CreateTask(Task("data", "start", packet, FALSE))
    /\ events' = events + 1
    /\ spoke' = None
    /\ hist' = Bump(hist, "questions_msgs", IF packet.kind = "QUESTIONS" THEN 1 ELSE 0)
    /\ UNCHANGED <<variant, exam_state, last_user_message, prompts>>
    /\ UNCHANGED unit_vars

\* the pipeline appends the user turn to chat_ctx and emits user_speech_committed:
\* agent.on("user_speech_committed", lambda _: asyncio.create_task(on_user_speech_committed()))
UserSpeechCommitted(u) ==
    /\ CanDeliver
    /\ last_user_message' = Some(u)
    /\ tasks' = CreateTask(Task("speech", "start", NoPacket, FALSE))
    /\ events' = events + 1
    /\ spoke' = None
    /\ hist' = Bump(hist, "plain", IF IsPlain(Some(u)) /\ exam_state.exam # None THEN 1 ELSE 0)
    /\ UNCHANGED <<variant, exam_state, prompts>>
    /\ UNCHANGED unit_vars

\* utils.py on_participant_disconnected: exam_state.exam.exam_id is read in the
\* callback, then asyncio.create_task(save_transcript(...))
ParticipantDisconnected ==
    /\ variant = "handlers"
    /\ CanDeliver
    /\ events' = events + 1
    /\ spoke' = None
    /\ IF exam_state.exam = None
       THEN /\ hist' = [hist EXCEPT !.raised = TRUE]
            /\ UNCHANGED tasks
       ELSE /\ UNCHANGED hist
            /\ tasks' = CreateTask(Task("disconnect", "save", NoPacket, FALSE))
    /\ UNCHANGED <<variant, exam_state, last_user_message, prompts>>
    /\ UNCHANGED unit_vars

\* a data task starts: handle_data_received up to its first await
DataStart(t) ==
    /\ t.kind = "data" /\ t.pc = "start"
    /\ \E db \in DbAnswers : Apply(t, HandleDataReceived(exam_state, t.packet, db))

\* a speech task starts: on_user_speech_committed up to its first await
SpeechStart(t) ==
    /\ t.kind = "speech" /\ t.pc = "start"
    /\ Apply(t, IF variant = "agent"
                THEN AgentSpeechCommitted(exam_state, last_user_message)
                ELSE HandlersSpeechCommitted(exam_state, last_user_message, variant))

\* a suspended task goes on to its next await
TaskResume(t) ==
    /\ t.pc # "start"
    /\ Apply(t, Resume(t.pc, exam_state, variant))

Next ==
    \/ \E packet \in Packets : DataReceived(packet)
    \/ \E u \in Utterances : UserSpeechCommitted(u)
    \/ ParticipantDisconnected
    \/ \E t \in BagToSet(tasks) : DataStart(t)
    \/ \E t \in BagToSet(tasks) : SpeechStart(t)
    \/ \E t \in BagToSet(tasks) : TaskResume(t)

Spec == Init /\ [][Next]_vars

(***************************************************************************)
(* The repository driver, src/exam_db_driver.py, on its submissions        *)
(* collection.  A document of the collection:                              *)
(*   [_id, examId, createdAt, personalizedQuestions, submissionTranscript, *)
(*    status]                                                              *)
(***************************************************************************)
MaxSubmissions == 2   \* documents of the submissions collection
MaxCreatedAt == 2     \* createdAt values 1..MaxCreatedAt

\* what ObjectId.is_valid accepts among the ids in use
ExamIds == {"e1", "e2"}
SubmissionIds == <<"s1", "s2", "s3">>
ValidObjectIds == ExamIds \cup {SubmissionIds[i] : i \in 1..Len(SubmissionIds)}
IsValidObjectId(id) == id \in ValidObjectIds
\* the ids a caller passes: exam ids, a submission id, the id of a fallback exam
CallIds == ExamIds \cup {"s1", "frontend-exam"}

Submission(id, examId, createdAt, personalizedQuestions) ==
    [_id |-> id, examId |-> examId, createdAt |-> createdAt,
     personalizedQuestions |-> personalizedQuestions,
     submissionTranscript |-> None, status |-> "pending"]

\* the collections of n documents, the k-th with _id SubmissionIds[k]
Collections(n) ==
    { [k \in 1..n |-> Submission(SubmissionIds[k], f[k].examId, f[k].createdAt,
                                 f[k].personalizedQuestions)] :
        f \in [1..n -> [examId : ExamIds, createdAt : 1..MaxCreatedAt,
                        personalizedQuestions : {<<>>, PersonalizedQuestions}]] }

\* an entry of a conversation and what save_conversation_transcript stores of it:
\* the timestamp goes through isoformat()
Entry(role, content, timestamp) == [role |-> role, content |-> content, timestamp |-> timestamp]
IsoFormat(timestamp) == <<"iso", timestamp>>
Serializable(conversation) ==
    [i \in 1..Len(conversation) |->
        Entry(conversation[i].role, conversation[i].content,
              IsoFormat(conversation[i].timestamp))]
Conversations == {<<>>, <<Entry("agent", <<"Q">>, 1), Entry("user", <<"A">>, 2)>>}

\* a faulty variant of MostRecentSubmissions: sorted by createdAt ascending
OldestSubmissions(subs, exam_id) ==
    {i \in 1..Len(subs) :
        /\ subs[i].examId = exam_id
        /\ \A j \in 1..Len(subs) :
              subs[j].examId = exam_id => subs[j].createdAt >= subs[i].createdAt}

\* find_one({"examId": exam_id}, sort=[("createdAt", -1)]): the positions of the
\* documents it may return (several when the latest createdAt is shared)
MostRecentSubmissions(subs, exam_id) ==
    {i \in 1..Len(subs) :
        /\ subs[i].examId = exam_id
        /\ \A j \in 1..Len(subs) :
              subs[j].examId = exam_id => subs[j].createdAt <= subs[i].createdAt}

\* find_one({"_id": ObjectId(submission_id)})
SubmissionsById(subs, submission_id) == {i \in 1..Len(subs) : subs[i]._id = submission_id}

Returned(fn, arg, value) == [fn |-> fn, arg |-> arg, value |-> value]

\* ExamDBDriver.save_conversation_transcript
SaveConversationTranscript(exam_id, conversation) ==
    /\ IF ~store.client \/ ~IsValidObjectId(exam_id)
          \/ MostRecentSubmissions(store.submissions, exam_id) = {}
       THEN /\ result' = Some(Returned("save_conversation_transcript", exam_id, FALSE))
            /\ UNCHANGED store
       ELSE \E i \in MostRecentSubmissions(store.submissions, exam_id) :
            /\ store' = [store EXCEPT
                   !.submissions[i].submissionTranscript = Some(Serializable(conversation)),
                   !.submissions[i].status = "completed"]
            /\ result' = Some(Returned("save_conversation_transcript", exam_id, TRUE))
    /\ UNCHANGED <<messages, clock, watchdog>>
    /\ UNCHANGED session_vars

\* ExamDBDriver.get_personalized_questions_from_submission
GetPersonalizedQuestionsFromSubmission(submission_id) ==
    /\ LET found == SubmissionsById(store.submissions, submission_id)
       IN  result' = Some(Returned("get_personalized_questions_from_submission", submission_id,
                 IF ~store.client \/ ~IsValidObjectId(submission_id) \/ found = {}
                 THEN <<>>
                 ELSE store.submissions[CHOOSE i \in found : TRUE].personalizedQuestions))
    /\ UNCHANGED <<store, messages, clock, watchdog>>
    /\ UNCHANGED session_vars

\* a driver, connected or not, on any collection
DriverInit ==
    /\ variant = "handlers"
    /\ exam_state = InitExamState
    /\ last_user_message = None
    /\ tasks = EmptyBag
    /\ events = 0
    /\ spoke = None
    /\ prompts = <<>>
    /\ hist = InitHist
    /\ store \in [client : BOOLEAN,
                  submissions : UNION {Collections(n) : n \in 0..MaxSubmissions}]
    /\ messages = <<>>
    /\ clock = 0
    /\ result = None
    /\ watchdog = InitWatchdog

DriverNext ==
    \/ \E exam_id \in CallIds, conversation \in Conversations :
          SaveConversationTranscript(exam_id, conversation)
    \/ \E submission_id \in CallIds : GetPersonalizedQuestionsFromSubmission(submission_id)

DriverSpec == DriverInit /\ [][DriverNext]_vars

(***************************************************************************)
(* The transcript extraction: src/transcript.py and, inline in the         *)
(* completion procedure, src/agent.py.  A message of the chat context:     *)
(*   [role, text, timestamp], timestamp None when the message has none.    *)
(* Times are counted in milliseconds.                                      *)
(***************************************************************************)
MaxTurns == 2    \* messages of the chat context
MaxClock == 2    \* times 1..MaxClock

Roles == {"system", "assistant", "user", "tool"}
Texts == {<<>>, <<" ">>, <<" ", "a", " ">>}
Timestamps == {None} \cup {Some(ts) : ts \in 1..MaxClock}
ChatMessage(role, text, timestamp) == [role |-> role, text |-> text, timestamp |-> timestamp]
ChatMessages == {ChatMessage(r, x, ts) : r \in Roles, x \in Texts, ts \in Timestamps}

\* str.strip()
IsSpace(c) == c \in {" ", "\t", "\n"}
Strip(s) ==
    LET solid == {i \in 1..Len(s) : ~IsSpace(s[i])}
    IN  IF solid = {} THEN <<>>
        ELSE SubSeq(s, CHOOSE i \in solid : \A j \in solid : i <= j,
                       CHOOSE i \in solid : \A j \in solid : j <= i)

\* a faulty variant of TranscriptRole: roles other than assistant keep their name
TranscriptRole_KeepsName(role) == IF role = "assistant" THEN "agent" ELSE role

\* "agent" if message.role == "assistant" else "user"
TranscriptRole(role) == IF role = "assistant" THEN "agent" ELSE "user"

\* the loop over agent.chat_ctx.messages from message k on, current_time being
\* the time the next message without timestamp gets
RECURSIVE ConversationFrom(_, _, _)
ConversationFrom(msgs, k, current_time) ==
    IF k > Len(msgs) THEN <<>>
    ELSE LET message == msgs[k]
         IN  IF message.role = "system" \/ Strip(message.text) = <<>>
             THEN ConversationFrom(msgs, k + 1, current_time)
             ELSE IF message.timestamp = None
             THEN <<Entry(TranscriptRole(message.role), Strip(message.text), current_time)>>
                  \o ConversationFrom(msgs, k + 1, current_time + 1)
             ELSE <<Entry(TranscriptRole(message.role), Strip(message.text),
                          Val(message.timestamp))>>
                  \o ConversationFrom(msgs, k + 1, current_time)

\* transcript.py extract_conversation_transcript
ExtractConversationTranscript ==
    /\ result' = Some(Returned("extract_conversation_transcript", messages,
                               ConversationFrom(messages, 1, clock)))
    /\ UNCHANGED <<store, messages, clock, watchdog>>
    /\ UNCHANGED session_vars

\* agent.py, the conversation built inline by the completion procedure
FormatConversation ==
    /\ result' = Some(Returned("ask_next_question.conversation", messages,
                               ConversationFrom(messages, 1, clock)))
    /\ UNCHANGED <<store, messages, clock, watchdog>>
    /\ UNCHANGED session_vars

\* any chat context of up to MaxTurns messages, extracted at any time
TranscriptInit ==
    /\ variant \in {"agent", "handlers"}
    /\ exam_state = InitExamState
    /\ last_user_message = None
    /\ tasks = EmptyBag
    /\ events = 0
    /\ spoke = None
    /\ prompts = <<>>
    /\ hist = InitHist
    /\ store = InitStore
    /\ messages \in UNION {[1..n -> ChatMessages] : n \in 0..MaxTurns}
    /\ clock \in 1..MaxClock
    /\ result = None
    /\ watchdog = InitWatchdog

TranscriptNext ==
    \/ variant = "handlers" /\ ExtractConversationTranscript
    \/ variant = "agent" /\ FormatConversation

TranscriptSpec == TranscriptInit /\ [][TranscriptNext]_vars

(***************************************************************************)
(* The periodic data check: the loop at the end of entrypoint in           *)
(* src/agent.py, wait_for_data in src/utils.py.  It runs beside the        *)
(* handlers of the data messages and is suspended at asyncio.sleep and at  *)
(* agent.say.                                                              *)
(***************************************************************************)
max_checks == 12
\* the check after which the reminder is spoken
reminder_check == 3

ReminderLine == Line("reminder", 0, "", "")

\* while checks < max_checks and not exam_state.data_received
WatchdogLoop(wd, st) ==
    IF wd.checks < max_checks /\ ~st.data_received
    THEN [wd EXCEPT !.pc = "sleep"]
    ELSE [wd EXCEPT !.pc = "done"]

\* a faulty variant of WatchdogAfterSleep: the reminder is spoken at every check
\* that finds no data
WatchdogAfterSleep_AlwaysReminds(wd, st) ==
    IF ~st.data_received
    THEN [wd EXCEPT !.pc = "say", !.checks = @ + 1, !.reminders = @ + 1]
    ELSE WatchdogLoop([wd EXCEPT !.checks = @ + 1], st)

\* after asyncio.sleep(check_interval): count the check, speak the reminder at
\* the third one, else go round the loop
WatchdogAfterSleep(wd, st) ==
    IF wd.checks + 1 = reminder_check /\ ~st.data_received
    THEN [wd EXCEPT !.pc = "say", !.checks = @ + 1, !.reminders = @ + 1]
    ELSE WatchdogLoop([wd EXCEPT !.checks = @ + 1], st)

\* the data check runs from one await to the next
WatchdogStep ==
    /\ watchdog.pc # "done"
    /\ watchdog' = CASE watchdog.pc = "start" -> WatchdogLoop(watchdog, exam_state)
                     [] watchdog.pc = "sleep" -> WatchdogAfterSleep(watchdog, exam_state)
                     [] watchdog.pc = "say" -> WatchdogLoop(watchdog, exam_state)
    /\ spoke' = IF watchdog'.pc = "say" THEN Some(ReminderLine) ELSE None
    /\ UNCHANGED <<variant, exam_state, last_user_message, tasks, events, prompts, hist>>
    /\ UNCHANGED <<store, messages, clock, result>>

\* a session that receives data messages only, with its data check
WatchdogNext ==
    \/ \E packet \in Packets : DataReceived(packet)
    \/ \E t \in BagToSet(tasks) : DataStart(t)
    \/ \E t \in BagToSet(tasks) : TaskResume(t)
    \/ WatchdogStep

\* the event loop runs the data check whenever its sleep or its say is over
WatchdogSpec == Init /\ [][WatchdogNext]_vars /\ WF_vars(WatchdogStep)

(***************************************************************************)
(* The session of src/agent.py with a student who goes on speaking.  The   *)
(* deliveries of utterances are not counted here (events and hist stay as  *)
(* they are on them), so that they can go on forever; the data messages    *)
(* are counted as before, in events.                                       *)
(***************************************************************************)
MaxDataMessages == 2   \* data messages of a session whose student goes on speaking

\* the pipeline commits the utterance u and starts its handler
StudentSpeaks(u) ==
    /\ Alive < MaxTasks
    /\ last_user_message' = Some(u)
    /\ tasks' = CreateTask(Task("speech", "start", NoPacket, FALSE))
    /\ spoke' = None
    /\ UNCHANGED <<variant, exam_state, events, prompts, hist>>
    /\ UNCHANGED unit_vars

\* the event loop runs a handler that can run
HandlerStep ==
    \/ \E t \in BagToSet(tasks) : DataStart(t)
    \/ \E t \in BagToSet(tasks) : SpeechStart(t)
    \/ \E t \in BagToSet(tasks) : TaskResume(t)

LiveInit == Init /\ variant = "agent"

LiveNext ==
    \/ events < MaxDataMessages /\ \E packet \in Packets : DataReceived(packet)
    \/ \E u \in Utterances : StudentSpeaks(u)
    \/ HandlerStep

\* asyncio runs every task that is ready
LiveSpec == LiveInit /\ [][LiveNext]_vars /\ WF_vars(HandlerStep)

(***************************************************************************)
(* Vocabulary of the properties.                                           *)
(***************************************************************************)
Loaded == exam_state.exam # None
NumberOfQuestions == Len(Val(exam_state.exam).questions)
Quiescent == tasks = EmptyBag

\* The session run by agent.py has received one QUESTIONS message and, since the
\* exam was established, only utterances without any phrase.
PlainAgentSession ==
    /\ variant = "agent"
    /\ hist.questions_msgs = 1
    /\ hist.plain = events - 1

\* the prompts "Question 1" .. "Question n" of the exam ex
PromptsOf(ex, n) == [k \in 1..n |-> QuestionPrompt(k - 1, ex.questions[k])]

\* task t runs ask_next_question in this step and takes its another-chance branch
GrantsAnotherChance(t) ==
    /\ TaskResume(t)
    /\ Resume(t.pc, exam_state, variant).pc = "ask_say_again"

\* task t runs ask_next_question in this step
RunsAskNextQuestion(t) ==
    /\ TaskResume(t)
    /\ \/ t.pc \in {"say_welcome", "sleep_chance"}
       \/ t.pc = "sleep_pacing" /\ ~exam_state.exam_completed

C2_RoundTrip ==
    (PlainAgentSession /\ Loaded /\ Quiescent /\ exam_state.exam_completed) =>
        /\ prompts = PromptsOf(Val(exam_state.exam), NumberOfQuestions)
        /\ hist.closing = 1

(***************************************************************************)
(* C3                                                                      *)
(***************************************************************************)
\* C3: granting another chance leaves current_question_idx and questions_asked
\* unchanged, clears needs_another_chance once the line is spoken, and the line
\* spoken is exactly the question prompt spoken last.
C3_AnotherChanceRepeatsThePrompt ==
    [][\A t \in BagToSet(tasks) :
        /\ GrantsAnotherChance(t) =>
              /\ exam_state'.current_question_idx = exam_state.current_question_idx
              /\ exam_state'.questions_asked = exam_state.questions_asked
              /\ prompts # <<>>
              /\ spoke' = Some(prompts[Len(prompts)])
        /\ (TaskResume(t) /\ t.pc = "ask_say_again") =>
              /\ exam_state'.current_question_idx = exam_state.current_question_idx
              /\ exam_state'.questions_asked = exam_state.questions_asked
              /\ ~exam_state'.needs_another_chance
      ]_vars

(***************************************************************************)
(* C4                                                                      *)
(***************************************************************************)
\* C4: the completion procedure runs at most once in a session (its transcript
\* save, the EXAM_COMPLETED message and the closing statement each occur at most
\* once), and ask_next_question run after completion saves nothing and speaks
\* nothing.
C4_CompletionAtMostOnce ==
    /\ [](hist.save_completion <= 1 /\ hist.completed_msgs <= 1 /\ hist.closing <= 1)
    /\ [][\A t \in BagToSet(tasks) :
            (RunsAskNextQuestion(t) /\ exam_state.exam_completed) =>
                (spoke' = None /\ hist'.saves = hist.saves)
         ]_vars

(***************************************************************************)
(* C5                                                                      *)
(***************************************************************************)
\* C5: the handler of a termination phrase, in whatever state it runs, leaves
\* exam_completed true with the transcript save invoked exactly once in the
\* session, and current_question_idx does not change from then on.
C5_TerminationSavesOnce ==
    /\ [][\A t \in BagToSet(tasks) :
            (TaskResume(t) /\ t.pc = "say_ack") =>
                (exam_state'.exam_completed /\ hist'.saves = 1)
         ]_vars
    /\ [][hist.terminated =>
            exam_state'.current_question_idx = exam_state.current_question_idx]_vars

(***************************************************************************)
(* C6                                                                      *)
(***************************************************************************)
\* C6: in agent.py, the handler of an utterance with a don't-know phrase that
\* finds waiting_for_another_chance_response false sets it, speaks the chance
\* offer and then returns: current_question_idx and questions_asked keep their
\* values and no question is asked by that handler.
C6_DontKnowOffersAnotherChance ==
    [][\A t \in BagToSet(tasks) :
        /\ ( /\ SpeechStart(t)
             /\ variant = "agent"
             /\ IsDontKnow(last_user_message)
             /\ ~exam_state.waiting_for_another_chance_response ) =>
              /\ exam_state'.waiting_for_another_chance_response
              /\ spoke' = Some(ChanceOffer)
              /\ exam_state'.current_question_idx = exam_state.current_question_idx
              /\ exam_state'.questions_asked = exam_state.questions_asked
              /\ prompts' = prompts
              /\ tasks' = (tasks (-) SetToBag({t}))
                          (+) SetToBag({Task("speech", "say_offer", NoPacket, FALSE)})
        /\ (TaskResume(t) /\ t.pc = "say_offer") =>
              /\ exam_state' = exam_state
              /\ spoke' = None
              /\ prompts' = prompts
              /\ tasks' = tasks (-) SetToBag({t})
      ]_vars

\* C6, witness: with question 1 asked, a don't-know answer has been handled: the
\* flag is set and the offer is the line just spoken.
C6_Witness ==
    /\ variant = "agent"
    /\ Loaded
    /\ exam_state.current_question_idx = 1
    /\ exam_state.questions_asked = 1
    /\ exam_state.waiting_for_another_chance_response
    /\ last_user_message = Some(UttDontKnow)
    /\ spoke = Some(ChanceOffer)
    /\ tasks = SetToBag({Task("speech", "say_offer", NoPacket, FALSE)})

(***************************************************************************)
(* C7                                                                      *)
(***************************************************************************)
\* C7: once exam_completed is true no step changes a field of ExamState, and no
\* question prompt and no chance offer is spoken.
C7_CompletedIsTerminal ==
    [][exam_state.exam_completed =>
        /\ exam_state' = exam_state
        /\ spoke' = None \/ Val(spoke').kind \notin {"question", "offer"}
      ]_vars

(***************************************************************************)
(* C8                                                                      *)
(***************************************************************************)
\* C8: the handler of a QUESTIONS message that finds an exam established leaves
\* exam, current_question_idx, questions_asked and the dialog flags as they are
\* and speaks no question.
C8_ExamAssignedOnce ==
    [][\A t \in BagToSet(tasks) :
        ( \/ DataStart(t) /\ t.packet.kind = "QUESTIONS" /\ Loaded
          \/ TaskResume(t) /\ t.late ) =>
            /\ exam_state'.exam = exam_state.exam
            /\ exam_state'.current_question_idx = exam_state.current_question_idx
            /\ exam_state'.questions_asked = exam_state.questions_asked
            /\ exam_state'.needs_another_chance = exam_state.needs_another_chance
            /\ exam_state'.waiting_for_another_chance_response =
                   exam_state.waiting_for_another_chance_response
            /\ exam_state'.exam_completed = exam_state.exam_completed
            /\ spoke' = None \/ Val(spoke').kind # "question"
      ]_vars

(***************************************************************************)
(* C9                                                                      *)
(***************************************************************************)
\* C9: at no time have two handlers of the session both started and not yet
\* finished.
C9_HandlersRunOneAtATime == Running <= 1

(***************************************************************************)
(* C10                                                                     *)
(***************************************************************************)
\* C10: the new-question prompts spoken are numbered 1, 2, 3, ... in that order,
\* none skipped and none spoken twice, and an another-chance re-ask repeats the
\* question presented last.
C10_PromptsInSequence ==
    /\ [](\A k \in 1..Len(prompts) : prompts[k].n = k)
    /\ [][\A t \in BagToSet(tasks) :
            GrantsAnotherChance(t) =>
                (prompts # <<>> /\ spoke' = Some(prompts[Len(prompts)]))
         ]_vars

(***************************************************************************)
(* C11                                                                     *)
(***************************************************************************)
\* C11: the handler of a QUESTIONS message that establishes the exam sets
\* data_received and speaks the welcome naming the student and the exam; coming
\* back from the welcome it speaks "Question 1: <first question>", and when that
\* is said current_question_idx is 1, whatever was uttered before the message.
C11_WelcomeThenQuestionOne ==
    [][\A t \in BagToSet(tasks) :
        /\ (DataStart(t) /\ t.packet.kind = "QUESTIONS" /\ ~Loaded
                /\ exam_state'.exam # None) =>
              /\ exam_state'.data_received
              /\ spoke' = Some(WelcomeMessage(GetOr(t.packet.studentName, "Student"),
                                              Val(exam_state'.exam).name))
        /\ (TaskResume(t) /\ t.kind = "data" /\ ~t.late /\ t.pc = "say_welcome") =>
              /\ Loaded
              /\ spoke' = Some(QuestionPrompt(0, Val(exam_state.exam).questions[1]))
        /\ (TaskResume(t) /\ t.kind = "data" /\ ~t.late /\ t.pc = "ask_say_question") =>
              exam_state'.current_question_idx = 1
      ]_vars

(***************************************************************************)
(* C12                                                                     *)
(***************************************************************************)
\* C12: the handler of a QUESTIONS message without inline questions, run before
\* any data was received and finding no exam in the repository, speaks the
\* failure notice and leaves every field of ExamState as it was (data_received
\* false, exam None, index and flags unchanged); it asks no question.
C12_NoExamStaysAwaitingData ==
    [][\A t \in BagToSet(tasks) :
        /\ (DataStart(t) /\ t.packet.kind = "QUESTIONS" /\ t.packet.questions = <<>>
                /\ ~exam_state.data_received /\ ~Loaded /\ exam_state'.exam = None) =>
              /\ spoke' = Some(FailureNotice)
              /\ exam_state' = exam_state
              /\ prompts' = prompts
        /\ (TaskResume(t) /\ t.pc = "say_failure") =>
              /\ spoke' = None
              /\ exam_state' = exam_state
              /\ prompts' = prompts
      ]_vars

(***************************************************************************)
(* C13                                                                     *)
(***************************************************************************)
\* C13: the handler of a message whose type is not QUESTIONS, or whose body is
\* not JSON, leaves every field of ExamState, data_received included, as it was
\* and speaks nothing.
C13_OtherMessagesIgnored ==
    [][\A t \in BagToSet(tasks) :
        (DataStart(t) /\ t.packet.kind # "QUESTIONS") =>
            /\ exam_state' = exam_state
            /\ spoke' = None
            /\ tasks' = tasks (-) SetToBag({t})
      ]_vars

(***************************************************************************)
(* C14                                                                     *)
(***************************************************************************)
\* C14: when the transcript save of the completion procedure has failed (the
\* repository returned False or something raised), exam_completed is set and,
\* once the procedure is past its EXAM_COMPLETED message, the closing statement
\* has been spoken.
C14_CompletionSurvivesSaveFailure ==
    (hist.completion_save_failed
        /\ \A t \in BagToSet(tasks) : t.pc # "ask_send_message") =>
            /\ exam_state.exam_completed
            /\ hist.closing = 1

(***************************************************************************)
(* C15                                                                     *)
(***************************************************************************)
\* C15: no handler ends by an uncaught exception, in particular not the handler
\* of a termination phrase or of a participant disconnect that finds exam None.
C15_NoUncaughtException == ~hist.raised

(***************************************************************************)
(* C16                                                                     *)
(***************************************************************************)
\* C16: once the question presented last has been asked again through another
\* chance, no chance offer is spoken and the question is not asked again until a
\* new question is presented.
C16_AnotherChanceOnlyOnce ==
    [][hist.reasked =>
        /\ spoke' # Some(ChanceOffer)
        /\ \A t \in BagToSet(tasks) : ~GrantsAnotherChance(t)
      ]_vars

(***************************************************************************)
(* C17                                                                     *)
(***************************************************************************)
\* C17: save_conversation_transcript, when the driver is connected, the id is
\* well-formed and a submission of the exam exists, stores the transcript and
\* the status "completed" in a submission of that exam with the latest createdAt,
\* changes no other document and returns True; otherwise it returns False and
\* changes no document.
C17_SaveUpdatesMostRecentSubmission ==
    [][\A exam_id \in CallIds, conversation \in Conversations :
        SaveConversationTranscript(exam_id, conversation) =>
            LET subs == store.submissions
                matching == {i \in 1..Len(subs) : subs[i].examId = exam_id}
            IN  IF store.client /\ IsValidObjectId(exam_id) /\ matching # {}
                THEN /\ Val(result').value = TRUE
                     /\ store'.client = store.client
                     /\ \E i \in matching :
                          /\ \A j \in matching : subs[j].createdAt <= subs[i].createdAt
                          /\ store'.submissions =
                                [subs EXCEPT ![i].submissionTranscript =
                                                 Some(Serializable(conversation)),
                                             ![i].status = "completed"]
                ELSE /\ Val(result').value = FALSE
                     /\ store' = store
      ]_vars

\* C17, witness: of two submissions of exam e1 the later one was completed with
\* the transcript, the earlier one is as it was.
C17_Witness ==
    /\ result = Some(Returned("save_conversation_transcript", "e1", TRUE))
    /\ Len(store.submissions) = 2
    /\ \E i, j \in 1..2 :
          /\ store.submissions[i].examId = "e1" /\ store.submissions[j].examId = "e1"
          /\ store.submissions[i].createdAt < store.submissions[j].createdAt
          /\ store.submissions[j].status = "completed"
          /\ store.submissions[j].submissionTranscript # None
          /\ Val(store.submissions[j].submissionTranscript) # <<>>
          /\ store.submissions[i].status = "pending"
          /\ store.submissions[i].submissionTranscript = None

(***************************************************************************)
(* C18                                                                     *)
(***************************************************************************)
\* C18: called with the id of an exam, get_personalized_questions_from_submission
\* returns the personalized questions of the submission of that exam created
\* last among those that carry a non-empty list, and nothing when there is no
\* such submission.
C18_PersonalizedQuestionsOfLatestSubmission ==
    [][\A exam_id \in ExamIds :
        GetPersonalizedQuestionsFromSubmission(exam_id) =>
            LET subs == store.submissions
                carrying == {i \in 1..Len(subs) : /\ subs[i].examId = exam_id
                                                  /\ subs[i].personalizedQuestions # <<>>}
            IN  IF store.client /\ carrying # {}
                THEN \E i \in carrying :
                        /\ \A j \in carrying : subs[j].createdAt <= subs[i].createdAt
                        /\ Val(result').value = subs[i].personalizedQuestions
                ELSE Val(result').value = <<>>
      ]_vars

(***************************************************************************)
(* C19                                                                     *)
(***************************************************************************)
\* the messages that are not of the system role and whose stripped text is not
\* empty, in their order
KeptMessages ==
    SelectSeq(messages, LAMBDA m : m.role # "system" /\ Strip(m.text) # <<>>)

\* C19: the extracted transcript holds exactly the messages that are not of the
\* system role and whose stripped text is not empty, in their order, with the
\* role "agent" for assistant messages and "user" for every other role.
C19_TranscriptKeepsNonSystemNonEmptyTurns ==
    result # None =>
        LET conversation == Val(result).value
        IN  /\ Len(conversation) = Len(KeptMessages)
            /\ \A k \in 1..Len(conversation) :
                  /\ conversation[k].content = Strip(KeptMessages[k].text)
                  /\ conversation[k].role =
                        IF KeptMessages[k].role = "assistant" THEN "agent" ELSE "user"

\* C19, witness: a system message with text was left out and a tool message with
\* padded text was kept as a user turn with the stripped text.
C19_Witness ==
    /\ result # None
    /\ Len(messages) = 2
    /\ messages[1].role = "system" /\ Strip(messages[1].text) # <<>>
    /\ messages[2].role = "tool" /\ messages[2].text = <<" ", "a", " ">>
    /\ Len(Val(result).value) = 1
    /\ Val(result).value[1].role = "user"
    /\ Val(result).value[1].content = <<"a">>

(***************************************************************************)
(* C20                                                                     *)
(***************************************************************************)
\* C20: the timestamps of an extracted transcript increase strictly in the order
\* of the output, whether the messages carry a timestamp of their own or get the
\* time of the extraction, advanced by one millisecond per message without one.
C20_TimestampsStrictlyIncrease ==
    result # None =>
        LET conversation == Val(result).value
        IN  \A k \in 1..(Len(conversation) - 1) :
                conversation[k].timestamp < conversation[k + 1].timestamp

(***************************************************************************)
(* C21                                                                     *)
(***************************************************************************)
\* C21: no step of the session (the delivery of an utterance or of a data
\* message, repeated ones included, or a run of a handler or of
\* ask_next_question) lowers current_question_idx.
C21_IndexNeverDecreases ==
    [][exam_state'.current_question_idx >= exam_state.current_question_idx]_vars

\* C21, witness: the index has advanced to 2 in a session that received a second
\* QUESTIONS message, and every handler has finished.
C21_Witness ==
    /\ exam_state.current_question_idx = 2
    /\ hist.questions_msgs >= 2
    /\ Quiescent

(***************************************************************************)
(* C22                                                                     *)
(***************************************************************************)
\* the distinct question numbers among the prompts spoken
PromptNumbers == {prompts[k].n : k \in 1..Len(prompts)}

\* C22: whenever no handler is in progress, questions_asked equals
\* current_question_idx and the number of distinct "Question k" prompts spoken
\* so far, and an another-chance re-ask leaves questions_asked as it is.
C22_QuestionsAskedCountsDistinctPrompts ==
    /\ [](Quiescent =>
            /\ exam_state.questions_asked = exam_state.current_question_idx
            /\ exam_state.questions_asked = Cardinality(PromptNumbers))
    /\ [][\A t \in BagToSet(tasks) :
            (GrantsAnotherChance(t) \/ (TaskResume(t) /\ t.pc = "ask_say_again")) =>
                exam_state'.questions_asked = exam_state.questions_asked
         ]_vars

(***************************************************************************)
(* C23                                                                     *)
(***************************************************************************)
\* C23: the data check ends, after at most 12 checks; a run of it that finds
\* data_received true ends it; the reminder is spoken at most once, by the third
\* check only and only if that check finds data_received false; no run of it
\* changes a field of ExamState.
C23_WatchdogIsBounded ==
    /\ <>(watchdog.pc = "done")
    /\ [](watchdog.checks <= 12 /\ watchdog.reminders <= 1)
    /\ [][WatchdogStep =>
            /\ exam_state' = exam_state
            /\ exam_state.data_received => watchdog'.pc = "done"
            /\ watchdog'.checks \in {watchdog.checks, watchdog.checks + 1}
            /\ (spoke' = Some(ReminderLine)) = (watchdog'.reminders = watchdog.reminders + 1)
            /\ spoke' = Some(ReminderLine) =>
                  /\ watchdog.checks = 2 /\ watchdog'.checks = 3
                  /\ ~exam_state.data_received
         ]_vars

\* C23, witness: the data check has ended after 12 checks without data, the
\* reminder spoken once.
C23_Witness ==
    /\ watchdog = [pc |-> "done", checks |-> 12, reminders |-> 1]
    /\ ~exam_state.data_received

C25_ReplyToTheOfferIsExclusive ==
    [][\A t \in BagToSet(tasks) :
        /\ ( /\ SpeechStart(t)
             /\ variant = "agent"
             /\ exam_state.waiting_for_another_chance_response
             /\ ~IsTermination(last_user_message) ) =>
               /\ ~exam_state'.waiting_for_another_chance_response
               /\ exam_state'.needs_another_chance = IsAffirmative(last_user_message)
               /\ spoke' = None
               /\ \E u \in BagToSet(tasks') :
                     /\ u.kind = "speech"
                     /\ u.pc = IF IsAffirmative(last_user_message)
                               THEN "sleep_chance" ELSE "sleep_pacing"
        /\ (TaskResume(t) /\ t.pc = "sleep_chance") =>
               /\ prompts # <<>>
               /\ spoke' = Some(prompts[Len(prompts)])
               /\ exam_state'.current_question_idx = exam_state.current_question_idx
        /\ (TaskResume(t) /\ t.pc = "sleep_pacing" /\ Loaded /\ ~exam_state.exam_completed
                /\ exam_state.current_question_idx < NumberOfQuestions) =>
               /\ spoke' # None
               /\ Val(spoke').kind = "question"
               /\ Val(spoke').n = exam_state.current_question_idx + 1
      ]_vars

(***************************************************************************)
(* C26                                                                     *)
(***************************************************************************)
\* task t starts in this step as the handler of a QUESTIONS message, the
\* repository answering db
HandlesQuestions(t, db) ==
    /\ t.kind = "data" /\ t.pc = "start" /\ t.packet.kind = "QUESTIONS"
    /\ Apply(t, HandleDataReceived(exam_state, t.packet, db))

\* C26: the handler of a QUESTIONS message with an examId establishes, when
\* isImprovized is true and the repository has the exam, the exam with the
\* personalized questions if there are any and the repository's exam otherwise;
\* when isImprovized is false, the repository's exam of that id; the questions
\* of the message make the exam only when the lookup has left none.
C26_ExamSourceSelection ==
    [][\A t \in BagToSet(tasks) : \A db \in DbAnswers :
        (HandlesQuestions(t, db) /\ t.packet.examId # None) =>
            LET exam_id == Val(t.packet.examId)
                established == exam_state'.exam
            IN  /\ (t.packet.isImprovized /\ db.found /\ db.personalized) =>
                      /\ established # None
                      /\ Val(established).questions = PersonalizedQuestions
                      /\ Val(established).name = StoredExam(exam_id).name
                      /\ Val(established).exam_id = exam_id
                /\ (t.packet.isImprovized /\ db.found /\ ~db.personalized) =>
                      established = Some(StoredExam(exam_id))
                /\ (~t.packet.isImprovized /\ db.found) =>
                      established = Some(StoredExam(exam_id))
                /\ (established # None /\ t.packet.questions # <<>>
                        /\ Val(established).questions = t.packet.questions) => ~db.found
      ]_vars

\* C26, witness: a message with isImprovized has just established the exam with
\* the personalized questions under the name of the repository's exam.
C26_Witness ==
    /\ Loaded
    /\ Val(exam_state.exam).questions = PersonalizedQuestions
    /\ Val(exam_state.exam).name = "Stored"
    /\ spoke # None /\ Val(spoke).kind = "welcome"

(***************************************************************************)
(* C27                                                                     *)
(***************************************************************************)
\* the acknowledgment of a termination phrase has been started
AckStarted == hist.terminated \/ \E t \in BagToSet(tasks) : t.pc = "say_ack"

\* C27: once the handler of a termination phrase has come back from its
\* acknowledgment, no closing statement is spoken and no EXAM_COMPLETED message
\* is sent in the rest of the session, and from the start of the acknowledgment
\* on no question prompt is spoken.
C27_TerminationBypassesCompletion ==
    /\ [][hist.terminated =>
            /\ hist'.closing = hist.closing
            /\ hist'.completed_msgs = hist.completed_msgs]_vars
    /\ [][AckStarted => (spoke' = None \/ Val(spoke').kind # "question")]_vars

(***************************************************************************)
(* C28                                                                     *)
(***************************************************************************)
\* C28: in every state with an exam loaded, 0 <= current_question_idx <= the
\* number of questions of the exam, whatever the delivery of the events.
C28_IndexWithinTheExam ==
    Loaded =>
        /\ 0 <= exam_state.current_question_idx
        /\ exam_state.current_question_idx <= NumberOfQuestions

(***************************************************************************)
(* C29                                                                     *)
(***************************************************************************)
\* C29: whenever ask_next_question takes its another-chance branch,
\* current_question is a question prompt spoken before, never None.
C29_AnotherChanceHasAQuestion ==
    [][\A t \in BagToSet(tasks) :
        GrantsAnotherChance(t) =>
            /\ exam_state.current_question # None
            /\ \E k \in 1..Len(prompts) : exam_state.current_question = Some(prompts[k])
            /\ spoke' = exam_state.current_question
      ]_vars

(***************************************************************************)
(* C30                                                                     *)
(***************************************************************************)
\* C30: needs_another_chance and waiting_for_another_chance_response are never
\* both true, before the exam data has arrived and after completion included.
C30_ChanceFlagsExclusive ==
    ~(exam_state.needs_another_chance /\ exam_state.waiting_for_another_chance_response)

(***************************************************************************)
(* C31                                                                     *)
(***************************************************************************)
\* the student commits an utterance
Speaks == \E u \in Utterances : StudentSpeaks(u)

\* the student commits an utterance with a don't-know phrase or an affirmative one
SpeaksChancePhrase ==
    \E u \in Utterances :
        StudentSpeaks(u) /\ (IsDontKnow(Some(u)) \/ IsAffirmative(Some(u)))

\* C31: if the student goes on committing utterances, only finitely many of
\* them with a don't-know phrase or an affirmative reply, and every handler
\* that can run does run, then from any state with an exam loaded the session
\* comes to exam_completed true with the closing statement spoken.
C31_SessionCompletes ==
    ([]<><<Speaks>>_vars /\ <>[][~SpeaksChancePhrase]_vars) =>
        [](Loaded => <>(exam_state.exam_completed /\ hist.closing >= 1))

====
